---- MODULE Spec2Model ----
(***************************************************************************)
(* A model of flaggen (src/src/main.rs): the random flag generator, the    *)
(* stripe fill and the shape rasterizer of create_flag, and the event loop *)
(* of the preview window.                                                  *)
(*                                                                         *)
(* Four specifications share the variables:                                *)
(*   SpecPixel    the closure create_flag hands to RgbImage::from_fn,      *)
(*                applied to one pixel, in f32 arithmetic bit for bit;     *)
(*   Spec         create_flag on small canvases (whole pixel buffer);      *)
(*   SpecRandom   random_flag, every outcome of the random source;         *)
(*   SpecPreview  main's event loop around next_flag.                      *)
(***************************************************************************)
EXTENDS Integers, Sequences, FiniteSets, TLC

VARIABLES
    pc,          \* position of the modelled call / of main
    width,       \* create_flag / random_flag argument
    height,      \* create_flag / random_flag argument
    background,  \* FlagBackground handed to create_flag
    foreground,  \* Option<FlagForeground> handed to create_flag
    image,       \* the RgbImage create_flag returns: pixel -> colour
    painted,     \* pixels for which draw_with_fn's predicate was true
    rnd,         \* what random_flag drew from fastrand
    probe,       \* SpecPixel: the pixel the from_fn closure was applied to
    win,         \* SpecPreview: canvas.window().size()
    texture,     \* SpecPreview: Option of the texture on display
    queue,       \* SpecPreview: SDL events not yet delivered
    flags,       \* SpecPreview: number of random_flag invocations so far
    sent         \* SpecPreview: number of events the user has sent

vars == <<pc, width, height, background, foreground, image, painted, rnd,
          probe, win, texture, queue, flags, sent>>

\* Option<T>: None is the empty sequence, Some(v) the sequence <<v>>
None == <<>>

Some(v) == <<v>>

\* no FlagBackground constructed yet
NoBackground == [horizontal |-> FALSE, lines |-> <<>>]

\* the from_fn closure not applied yet
NoProbe == [x |-> 0, y |-> 0, index |-> 0, color |-> None]

\* fastrand not consulted yet
NoDraws == [coin |-> FALSE, sampled |-> None]

----------------------------------------------------------------------------
(* Bounds of the model *)

\* canvases of Spec are 0..MaxDim pixels wide and high
MaxDim == 6
\* backgrounds handed to create_flag in Spec have 1..MaxStripes lines
MaxStripes == 3
\* SpecPixel applies the closure to every pixel column of widths 1..MaxProbe
MaxProbe == 9
\* random_flag is called with width, height in 1..MaxWin
MaxWin == 2
\* ring widths are the multiples of 1/RingDen that Ring::random can produce
RingDen == 10
\* the user sends at most MaxEvents events to the preview window
MaxEvents == 4

----------------------------------------------------------------------------
(* Program constants *)

\* f32 has a 24 bit significand (x as f32, main.rs:161)
F32Precision == 24
\* fastrand::usize(1..6), main.rs:37
AmountLo == 1
AmountHi == 6
\* let radius = 0.8 / 2.0, main.rs:113: RadiusNum / RadiusDen
RadiusNum == 8
RadiusDen == 20
\* video.window("flag generator!", 640, 360), main.rs:213
InitWinW == 640
InitWinH == 360

\* Rgb<u8> values; two of the 2^24 colours random_color can return
Colors == {"Red", "Blue"}

----------------------------------------------------------------------------
(* f32 arithmetic of the stripe fill.  A non-negative f32 is [m, e], the    *)
(* value m * 2^e with 2^23 <= m < 2^24, or m = 0.                           *)

Pow2(n) == 2 ^ n

RECURSIVE BitLen(_)
BitLen(v) == IF v = 0 THEN 0 ELSE 1 + BitLen(v \div 2)

\* round-to-nearest, ties-to-even, of q + (a fraction): up says whether the
\* fraction is above one half, tie whether it is exactly one half
RoundEven(q, up, tie) ==
    IF up \/ (tie /\ q % 2 = 1) THEN q + 1 ELSE q

\* renormalise a significand that rounding carried up to 2^24
Carry(m, e) ==
    IF m = Pow2(F32Precision) THEN [m |-> Pow2(F32Precision - 1), e |-> e + 1]
    ELSE [m |-> m, e |-> e]

\* `v as f32` for an unsigned integer v < 2^30
U32AsF32(v) ==
    IF v = 0 THEN [m |-> 0, e |-> 0]
    ELSE LET len == BitLen(v) IN
         IF len <= F32Precision
         THEN [m |-> v * Pow2(F32Precision - len), e |-> len - F32Precision]
         ELSE LET s    == len - F32Precision
                  q    == v \div Pow2(s)
                  r    == v % Pow2(s)
                  half == Pow2(s - 1)
              IN  Carry(RoundEven(q, r > half, r = half), s)

\* one step of long division: six more quotient bits
DivStep(st, d) ==
    [q |-> st.q * 64 + ((st.r * 64) \div d), r |-> (st.r * 64) % d]

\* a / b in f32, b # 0
F32Div(a, b) ==
    IF a.m = 0 THEN [m |-> 0, e |-> 0]
    ELSE LET s0 == [q |-> a.m \div b.m, r |-> a.m % b.m]
             s4 == DivStep(DivStep(DivStep(DivStep(s0, b.m), b.m), b.m), b.m)
             \* s4.q = floor(a.m * 2^24 / b.m), in 2^23 .. 2^25
             e0 == a.e - b.e - F32Precision
         IN  IF s4.q >= Pow2(F32Precision)
             THEN LET q   == s4.q \div 2
                      low == s4.q % 2
                  IN  Carry(RoundEven(q, low = 1 /\ s4.r # 0,
                                         low = 1 /\ s4.r = 0), e0 + 1)
             ELSE Carry(RoundEven(s4.q, 2 * s4.r > b.m, 2 * s4.r = b.m), e0)

\* the odd part of a significand: m * 2^e with the trailing zero bits of m
\* moved into e
RECURSIVE Odd(_)
Odd(a) ==
    IF a.m # 0 /\ a.m % 2 = 0 THEN Odd([m |-> a.m \div 2, e |-> a.e + 1])
    ELSE a

\* a * b in f32, for b a small integer (stripes.len() as f32)
F32Mul(a, b) ==
    IF a.m = 0 \/ b.m = 0 THEN [m |-> 0, e |-> 0]
    ELSE LET ob  == Odd(b)
             p   == a.m * ob.m
             e0  == a.e + ob.e
             len == BitLen(p)
         IN  IF len <= F32Precision
             THEN [m |-> p * Pow2(F32Precision - len),
                   e |-> e0 + len - F32Precision]
             ELSE LET s    == len - F32Precision
                      q    == p \div Pow2(s)
                      r    == p % Pow2(s)
                      half == Pow2(s - 1)
                  IN  Carry(RoundEven(q, r > half, r = half), e0 + s)

\* `pos as usize`: truncation toward zero
F32AsUsize(a) ==
    IF a.m = 0 THEN 0
    ELSE IF a.e >= 0 THEN a.m * Pow2(a.e)
    ELSE IF -a.e > F32Precision THEN 0
    ELSE a.m \div Pow2(-a.e)

----------------------------------------------------------------------------
(* create_flag: the closure of RgbImage::from_fn (main.rs:157-170) *)

\* a slip: the division done on the integers, before the conversion to f32
StripeIndexIntegerDivision(bg, x, y, w, h) ==
    LET pos == IF bg.horizontal
               THEN U32AsF32(x \div w)
               ELSE U32AsF32(y \div h)
    IN  F32AsUsize(F32Mul(pos, U32AsF32(Len(bg.lines))))

\* (pos * background.lines.len() as f32) as usize
StripeIndex(bg, x, y, w, h) ==
    LET pos == IF bg.horizontal
               THEN F32Div(U32AsF32(x), U32AsF32(w))
               ELSE F32Div(U32AsF32(y), U32AsF32(h))
    IN  F32AsUsize(F32Mul(pos, U32AsF32(Len(bg.lines))))

\* background.lines[pos as usize] panics when the index is out of bounds
IndexInBounds(bg, x, y, w, h) == StripeIndex(bg, x, y, w, h) < Len(bg.lines)

StripeColor(bg, x, y, w, h) == bg.lines[StripeIndex(bg, x, y, w, h) + 1]

----------------------------------------------------------------------------
(* FlagForeground::draw_on (main.rs:103-145).  Pixel coordinates stay below *)
(* 10 in this model; there every f32 comparison of draw_on agrees with the  *)
(* comparison of the exact quotients, which is what is computed here.       *)

Min(a, b) == IF a <= b THEN a ELSE b

Abs(a) == IF a < 0 THEN -a ELSE a

Circle == [kind |-> "Circle", w |-> 0]

LeftTriangle == [kind |-> "LeftTriangle", w |-> 0]

\* Ring(k): FlagForegroundShape::Ring(ring_width) with ring_width = k / RingDen
Ring(k) == [kind |-> "Ring", w |-> k]

\* let pos = (pos - size / 2): integer vector arithmetic on Vector2<i32>
Centered(p, w, h) == <<p[1] - (w \div 2), p[2] - (h \div 2)>>

\* a slip: the diameter 0.8 used as the radius
WithinDiameter(p, w, h) ==
    LET c     == Centered(p, w, h)
        lower == Min(w, h)
    IN  RadiusDen * RadiusDen * (c[1] * c[1] + c[2] * c[2])
            <= 4 * RadiusNum * RadiusNum * lower * lower

\* distance <= radius, with distance = |(pos - size/2) / lower_size|:
\* (dx^2 + dy^2) / lower^2 <= (RadiusNum / RadiusDen)^2
WithinRadius(p, w, h) ==
    LET c     == Centered(p, w, h)
        lower == Min(w, h)
    IN  RadiusDen * RadiusDen * (c[1] * c[1] + c[2] * c[2])
            <= RadiusNum * RadiusNum * lower * lower

\* radius - ring_width / 2.0 <= distance, the lower end of the range
\* (radius - ring_width / 2.0)..=radius; the bound is num / den with
\* num = 2 * RingDen * RadiusNum - k * RadiusDen, den = 2 * RingDen * RadiusDen
AboveRingLower(k, p, w, h) ==
    LET c     == Centered(p, w, h)
        lower == Min(w, h)
        num   == 2 * RingDen * RadiusNum - k * RadiusDen
        den   == 2 * RingDen * RadiusDen
    IN  \/ num <= 0
        \/ den * den * (c[1] * c[1] + c[2] * c[2]) >= num * num * lower * lower

\* a slip: the ring centred on the circle's edge,
\* (radius - ring_width / 2.0)..=(radius + ring_width / 2.0)
CircleFamilySymmetricRing(shape, p, w, h) ==
    IF shape.kind = "Circle"
    THEN WithinRadius(p, w, h)
    ELSE LET c     == Centered(p, w, h)
             lower == Min(w, h)
             num   == 2 * RingDen * RadiusNum + shape.w * RadiusDen
             den   == 2 * RingDen * RadiusDen
         IN  /\ AboveRingLower(shape.w, p, w, h)
             /\ den * den * (c[1] * c[1] + c[2] * c[2])
                    <= num * num * lower * lower

\* the closure of the Circle | Ring(_) arm, main.rs:115-133
CircleFamily(shape, p, w, h) ==
    IF shape.kind = "Circle"
    THEN WithinRadius(p, w, h)
    ELSE AboveRingLower(shape.w, p, w, h) /\ WithinRadius(p, w, h)

\* a slip: <= 0.5 for < 0.5
LeftTriangleFnClosed(p, w, h) ==
    LET lower == Min(w, h)
    IN  2 * p[1] + Abs(2 * p[2] - lower) <= lower

\* the closure of the LeftTriangle arm, main.rs:137-142:
\* pos.x + |pos.y - 0.5| < 0.5 with pos = p / lower_size, times 2 * lower_size
LeftTriangleFn(p, w, h) ==
    LET lower == Min(w, h)
    IN  2 * p[1] + Abs(2 * p[2] - lower) < lower

\* the predicate draw_on hands to draw_with_fn for `shape`
Member(shape, p, w, h) ==
    IF shape.kind = "LeftTriangle"
    THEN LeftTriangleFn(p, w, h)
    ELSE CircleFamily(shape, p, w, h)

\* a slip: both ranges inclusive of their upper end
PixelsInclusive(w, h) == (0 .. w) \X (0 .. h)

\* enumerate_pixels_mut: the pixels of a w x h image
Pixels(w, h) == (0 .. (w - 1)) \X (0 .. (h - 1))

\* a slip: the assignment outside the `if f(pos)`
DrawWithFnUnconditional(img, color, f) ==
    [p \in DOMAIN img |-> color]

\* draw_with_fn (main.rs:86-101); f is the predicate, pixel -> BOOLEAN
DrawWithFn(img, color, f) ==
    [p \in DOMAIN img |-> IF f[p] THEN color ELSE img[p]]

\* draw_on (main.rs:103-145)
ShapePredicate(shape, img, w, h) ==
    [p \in DOMAIN img |-> Member(shape, p, w, h)]

DrawOn(fg, img, w, h) ==
    DrawWithFn(img, fg.color, ShapePredicate(fg.shape, img, w, h))

\* the pixels draw_on overwrites
PaintedBy(shape, w, h) == {p \in Pixels(w, h) : Member(shape, p, w, h)}

----------------------------------------------------------------------------
(* create_flag (main.rs:148-178) *)

\* RgbImage::from_fn(width, height, closure)
FromFn(bg, w, h) ==
    [p \in Pixels(w, h) |-> StripeColor(bg, p[1], p[2], w, h)]

\* the closure indexes background.lines out of bounds at some pixel
FillPanics(bg, w, h) ==
    \E p \in Pixels(w, h) : ~IndexInBounds(bg, p[1], p[2], w, h)

CreateFlag(bg, fg, w, h) ==
    IF fg = None THEN FromFn(bg, w, h)
    ELSE DrawOn(fg[1], FromFn(bg, w, h), w, h)

----------------------------------------------------------------------------
(* The random constructors (main.rs:23-84) *)

\* a slip: fastrand::usize(1..=6)
FlagBackgroundRandomInclusive ==
    {[horizontal |-> hz, lines |-> l] :
        hz \in BOOLEAN,
        l \in UNION {[1 .. n -> Colors] : n \in AmountLo .. AmountHi}}

\* FlagBackground::random: amount = fastrand::usize(1..6) random colours and
\* a random orientation
FlagBackgroundRandom ==
    {[horizontal |-> hz, lines |-> l] :
        hz \in BOOLEAN,
        l \in UNION {[1 .. n -> Colors] : n \in AmountLo .. (AmountHi - 1)}}

\* fastrand::f32() * 0.5 + 0.1 lies in [0.1, 0.6): the k with
\* 1/10 <= k / RingDen < 6/10
RingWidths == {k \in 1 .. RingDen : 10 * k >= RingDen /\ 10 * k < 6 * RingDen}

\* FlagForegroundShape::random
FlagForegroundShapeRandom ==
    {Circle, LeftTriangle} \cup {Ring(k) : k \in RingWidths}

\* FlagForeground::random
FlagForegroundRandom ==
    {[color |-> c, shape |-> sh] : c \in Colors, sh \in FlagForegroundShapeRandom}

----------------------------------------------------------------------------
(* random_flag (main.rs:180-205) *)

\* has_foreground after `if solid { has_foreground = true; }`
HasForeground(bg, coin) == IF Len(bg.lines) = 1 THEN TRUE ELSE coin

\* a slip: the sampled shape kept on a solid background
RandomFlagForegroundKeepShape(bg, coin, sampled) ==
    IF HasForeground(bg, coin) THEN sampled ELSE None

\* the foreground random_flag hands to create_flag, given the background, the
\* coin fastrand::bool() and what has_foreground.then(FlagForeground::random)
\* sampled
RandomFlagForeground(bg, coin, sampled) ==
    LET solid == Len(bg.lines) = 1
        fg    == IF HasForeground(bg, coin) THEN sampled ELSE None
    IN  IF fg # None /\ solid THEN Some([fg[1] EXCEPT !.shape = Circle])
        ELSE fg

----------------------------------------------------------------------------
(* Initial state: nothing called yet, the window not yet built *)

EmptyImage == <<>>

Init ==
    /\ pc = "idle"
    /\ width = 0
    /\ height = 0
    /\ background = NoBackground
    /\ foreground = None
    /\ image = EmptyImage
    /\ painted = {}
    /\ rnd = NoDraws
    /\ probe = NoProbe
    /\ win = <<InitWinW, InitWinH>>
    /\ texture = None
    /\ queue = <<>>
    /\ flags = 0
    /\ sent = 0

\* the call returned (or unwound): back to the caller
Return ==
    /\ pc \in {"returned", "panicked"}
    /\ pc' = "idle"
    /\ width' = 0
    /\ height' = 0
    /\ background' = NoBackground
    /\ foreground' = None
    /\ image' = EmptyImage
    /\ painted' = {}
    /\ rnd' = NoDraws
    /\ probe' = NoProbe
    /\ UNCHANGED <<win, texture, queue, flags, sent>>

----------------------------------------------------------------------------
(* Spec: create_flag(background, foreground, width, height) *)

\* the effect of create_flag on pc, image and painted
CreateFlagEffect(bg, fg, w, h) ==
    IF FillPanics(bg, w, h)
    THEN /\ pc' = "panicked"
         /\ image' = EmptyImage
         /\ painted' = {}
    ELSE /\ pc' = "returned"
         /\ image' = CreateFlag(bg, fg, w, h)
         /\ painted' = IF fg = None THEN {}
                       ELSE PaintedBy(fg[1].shape, w, h)

\* the backgrounds create_flag is called with in Spec
Backgrounds ==
    {[horizontal |-> hz, lines |-> l] :
        hz \in BOOLEAN, l \in UNION {[1 .. n -> Colors] : n \in 1 .. MaxStripes}}

\* the caller hands create_flag its arguments
CallCreateFlag ==
    /\ pc = "idle"
    /\ pc' = "called"
    /\ \E bg \in Backgrounds,
          fg \in {Some(f) : f \in FlagForegroundRandom} \cup {None},
          w \in 0 .. MaxDim, h \in 0 .. MaxDim :
          /\ width' = w
          /\ height' = h
          /\ background' = bg
          /\ foreground' = fg
    /\ UNCHANGED <<image, painted, rnd, probe, win, texture, queue, flags,
                   sent>>

\* the body of create_flag, from the fill to the returned buffer
CreateFlagBody ==
    /\ pc = "called"
    /\ CreateFlagEffect(background, foreground, width, height)
    /\ UNCHANGED <<width, height, background, foreground, rnd, probe, win,
                   texture, queue, flags, sent>>

Next == CallCreateFlag \/ CreateFlagBody \/ Return

Spec == Init /\ [][Next]_vars

----------------------------------------------------------------------------
(* SpecRandom: random_flag(width, height) *)

CallRandomFlag ==
    /\ pc = "idle"
    /\ \E w \in 1 .. MaxWin, h \in 1 .. MaxWin, bg \in FlagBackgroundRandom,
          coin \in BOOLEAN :
          \E sampled \in IF HasForeground(bg, coin)
                         THEN {Some(f) : f \in FlagForegroundRandom}
                         ELSE {None} :
             LET fg == RandomFlagForeground(bg, coin, sampled) IN
             /\ width' = w
             /\ height' = h
             /\ background' = bg
             /\ foreground' = fg
             /\ rnd' = [coin |-> coin, sampled |-> sampled]
             /\ CreateFlagEffect(bg, fg, w, h)
    /\ UNCHANGED <<probe, win, texture, queue, flags, sent>>

NextRandom == CallRandomFlag \/ Return

SpecRandom == Init /\ [][NextRandom]_vars

----------------------------------------------------------------------------
(* SpecPixel: the from_fn closure at one pixel of a width x height image,   *)
(* for small widths at every pixel and for widths around 2^24 at the ends   *)
(* and the middle of the axis                                               *)

LargeSizes ==
    {Pow2(F32Precision) - 1, Pow2(F32Precision), Pow2(F32Precision) + 1}

ProbeCoords(n) ==
    IF n <= MaxProbe THEN 0 .. (n - 1)
    ELSE {0, (n \div 2) - 1, n \div 2, (n \div 2) + 1, n - 2, n - 1}

\* the (x, y, width, height) the closure is applied to: the long axis is the
\* one the stripes follow
ProbePixels(hz) ==
    LET long  == {<<c, n>> : c \in 0 .. MaxProbe, n \in 1 .. MaxProbe}
                   \cup {<<c, n>> : c \in ProbeCoords(Pow2(F32Precision) + 1),
                                    n \in LargeSizes}
        short == {<<c, n>> : c \in 0 .. MaxWin, n \in 1 .. MaxWin}
    IN  {<<l, s>> \in long \X short : l[1] \in ProbeCoords(l[2]) /\ s[1] < s[2]}

FillPixel ==
    /\ pc = "idle"
    /\ \E bg \in FlagBackgroundRandom :
       \E ls \in ProbePixels(bg.horizontal) :
          LET l == ls[1]
              s == ls[2]
              x == IF bg.horizontal THEN l[1] ELSE s[1]
              w == IF bg.horizontal THEN l[2] ELSE s[2]
              y == IF bg.horizontal THEN s[1] ELSE l[1]
              h == IF bg.horizontal THEN s[2] ELSE l[2]
              ok == IndexInBounds(bg, x, y, w, h)
          IN  /\ width' = w
              /\ height' = h
              /\ background' = bg
              /\ probe' = [x |-> x, y |-> y,
                           index |-> StripeIndex(bg, x, y, w, h),
                           color |-> IF ok
                                     THEN Some(StripeColor(bg, x, y, w, h))
                                     ELSE None]
              /\ pc' = IF ok THEN "returned" ELSE "panicked"
    /\ UNCHANGED <<foreground, image, painted, rnd, win, texture, queue, flags,
                   sent>>

NextPixel == FillPixel \/ Return

SpecPixel == Init /\ [][NextPixel]_vars

----------------------------------------------------------------------------
(* SpecPreview: main (main.rs:207-281).  The flag next_flag puts on display *)
(* is recorded by the size random_flag was called with and by its serial    *)
(* number among the random_flag invocations; its pixels are those of        *)
(* SpecRandom.                                                              *)

\* the sizes the user can give the resizable window
WindowSizes ==
    {<<InitWinW, InitWinH>>, <<InitWinH, InitWinW>>,
     <<InitWinW \div 2, InitWinH \div 2>>}

\* next_flag (main.rs:225-249): random_flag at the window's size, uploaded to
\* a new texture of that size and presented
NextFlag ==
    /\ flags' = flags + 1
    /\ texture' = Some([size |-> win, flag |-> flags + 1])

\* main up to the event loop: the window is built, the first flag shown
Startup ==
    /\ pc = "idle"
    /\ pc' = "loop"
    /\ NextFlag
    /\ UNCHANGED <<width, height, background, foreground, image, painted, rnd,
                   probe, win, queue, sent>>

\* the user presses a key: Space, or any other key
UserKey ==
    /\ pc = "loop"
    /\ sent < MaxEvents
    /\ \E k \in {"Space", "OtherKey"} : queue' = Append(queue, k)
    /\ sent' = sent + 1
    /\ UNCHANGED <<pc, width, height, background, foreground, image, painted,
                   rnd, probe, win, texture, flags>>

\* the user resizes the window: SDL changes its size and queues SizeChanged
UserResize ==
    /\ pc = "loop"
    /\ sent < MaxEvents
    /\ \E size \in WindowSizes \ {win} : win' = size
    /\ queue' = Append(queue, "SizeChanged")
    /\ sent' = sent + 1
    /\ UNCHANGED <<pc, width, height, background, foreground, image, painted,
                   rnd, probe, texture, flags>>

\* the user closes the window
UserQuit ==
    /\ pc = "loop"
    /\ sent < MaxEvents
    /\ queue' = Append(queue, "Quit")
    /\ sent' = sent + 1
    /\ UNCHANGED <<pc, width, height, background, foreground, image, painted,
                   rnd, probe, win, texture, flags>>

\* one turn of `for event in events.wait_iter()` (main.rs:253-280)
HandleEvent ==
    /\ pc = "loop"
    /\ queue # <<>>
    /\ queue' = Tail(queue)
    /\ CASE Head(queue) = "Quit" ->
              /\ pc' = "exited"
              /\ UNCHANGED <<texture, flags>>
         [] Head(queue) = "Space" ->
              /\ NextFlag
              /\ UNCHANGED pc
         [] Head(queue) = "SizeChanged" ->
              \* clear, copy the texture already there, present
              UNCHANGED <<pc, texture, flags>>
         [] OTHER ->
              UNCHANGED <<pc, texture, flags>>
    /\ UNCHANGED <<width, height, background, foreground, image, painted, rnd,
                   probe, win, sent>>

NextPreview == Startup \/ UserKey \/ UserResize \/ UserQuit \/ HandleEvent

SpecPreview == Init /\ [][NextPreview]_vars

----------------------------------------------------------------------------
(* Properties *)

\* a call of the specification at hand has been made and has ended
Called == pc \in {"returned", "panicked"}

\* C1 (SpecRandom): whenever random_flag's background has exactly one
\* stripe, the foreground handed to create_flag is Some and its shape is
\* Circle, whatever the coin and the sampled shape were.
C1_SolidBackgroundGetsCircle ==
    (Called /\ Len(background.lines) = 1)
        => (foreground # None /\ foreground[1].shape = Circle)

\* the coin said no foreground and a Ring was sampled, on a solid background
C1_Witness ==
    /\ pc = "returned"
    /\ Len(background.lines) = 1
    /\ rnd.coin = FALSE
    /\ rnd.sampled # None
    /\ rnd.sampled[1].shape.kind = "Ring"
    /\ foreground = Some([rnd.sampled[1] EXCEPT !.shape = Circle])

\* C2 as claimed (SpecPixel): horizontal stripes [A, B] on widths the f32
\* conversion keeps exact: colour A when x < floor(W/2), B when
\* x >= floor(W/2).
C2_BoundaryAtFloorHalf ==
    (Called /\ background.horizontal /\ Len(background.lines) = 2
            /\ width <= Pow2(F32Precision))
        => /\ pc = "returned"
           /\ probe.color = Some(IF probe.x < width \div 2
                                 THEN background.lines[1]
                                 ELSE background.lines[2])

\* C2 as amended (SpecPixel): horizontal stripes [A, B], 1 <= W <= 2^24:
\* pixel (x, y) has colour A when 2x < W and colour B when 2x >= W, so the
\* first B column is ceil(W/2).
C2_BoundaryAtCeilHalf ==
    (Called /\ background.horizontal /\ Len(background.lines) = 2
            /\ width <= Pow2(F32Precision))
        => /\ pc = "returned"
           /\ probe.color = Some(IF 2 * probe.x < width
                                 THEN background.lines[1]
                                 ELSE background.lines[2])

\* column floor(W/2) of a wide odd-width image, still of colour A
C2_Witness ==
    /\ pc = "returned"
    /\ background.horizontal
    /\ Len(background.lines) = 2
    /\ background.lines[1] # background.lines[2]
    /\ width > MaxProbe
    /\ width % 2 = 1
    /\ width <= Pow2(F32Precision)
    /\ probe.x = width \div 2
    /\ probe.color = Some(background.lines[1])

\* C3 as claimed (Spec): a Circle drawn on a square canvas of side S >= 1
\* paints the centre pixel (S/2, S/2) and none of the four corners.
C3_CentreInCornersOut ==
    (pc = "returned" /\ foreground # None /\ width = height /\ width >= 1)
        => (foreground[1].shape = Circle
               => /\ <<width \div 2, height \div 2>> \in painted
                  /\ {<<0, 0>>, <<width - 1, 0>>, <<0, height - 1>>,
                      <<width - 1, height - 1>>} \cap painted = {})

\* C3 as amended (Spec): a Circle drawn on a square canvas of side S >= 1
\* paints the centre pixel; it leaves all four corners unpainted exactly when
\* S = 3 or S >= 5 (for S = 1, 2 and 4 the corner (S-1, S-1) is painted).
C3_CornersOutFromSideFive ==
    (pc = "returned" /\ foreground # None /\ width = height /\ width >= 1)
        => (foreground[1].shape = Circle
               => /\ <<width \div 2, height \div 2>> \in painted
                  /\ ({<<0, 0>>, <<width - 1, 0>>, <<0, height - 1>>,
                       <<width - 1, height - 1>>} \cap painted = {})
                        <=> (width = 3 \/ width >= 5))

\* a Circle on a 5 x 5 canvas: centre painted, corners not
C3_Witness ==
    /\ pc = "returned"
    /\ foreground # None
    /\ foreground[1].shape = Circle
    /\ width = 5
    /\ height = 5
    /\ <<2, 2>> \in painted
    /\ {<<0, 0>>, <<4, 0>>, <<0, 4>>, <<4, 4>>} \cap painted = {}

\* C4 as claimed (Spec): a LeftTriangle drawn on any canvas with width >= 1
\* and height >= 1 paints (0, height/2) and does not paint (width-1, 0).
C4_LeftMidInTopRightOut ==
    (pc = "returned" /\ foreground # None /\ width >= 1 /\ height >= 1)
        => (foreground[1].shape = LeftTriangle
               => /\ <<0, height \div 2>> \in painted
                  /\ <<width - 1, 0>> \notin painted)

\* C4 as amended (Spec): a LeftTriangle never paints (width-1, 0); it paints
\* (0, height/2) exactly when height >= 2 and height/2 < width.
C4_LeftMidInUnlessTallOrFlat ==
    (pc = "returned" /\ foreground # None /\ width >= 1 /\ height >= 1)
        => (foreground[1].shape = LeftTriangle
               => /\ <<width - 1, 0>> \notin painted
                  /\ <<0, height \div 2>> \in painted
                        <=> (height >= 2 /\ height \div 2 < width))

\* a LeftTriangle on a canvas taller than wide that still holds (0, height/2)
C4_Witness ==
    /\ pc = "returned"
    /\ foreground # None
    /\ foreground[1].shape = LeftTriangle
    /\ height > width
    /\ <<0, height \div 2>> \in painted
    /\ <<width - 1, 0>> \notin painted

\* C5 (Spec): after create_flag(background, Some(foreground), w, h) every
\* pixel has the foreground colour where the shape's predicate holds and the
\* stripe colour of the background fill everywhere else.
C5_OnlyShapePixelsOverwritten ==
    (pc = "returned" /\ foreground # None)
        => /\ DOMAIN image = Pixels(width, height)
           /\ \A p \in Pixels(width, height) :
                 image[p] = IF Member(foreground[1].shape, p, width, height)
                            THEN foreground[1].color
                            ELSE StripeColor(background, p[1], p[2],
                                             width, height)

\* the 4 x 4 Red background with a Blue Circle: Blue on the nine pixels with
\* x, y in 1..3 (distance from (2, 2) at most 0.4 * 4), Red on the other seven
C5_Witness ==
    /\ pc = "returned"
    /\ width = 4
    /\ height = 4
    /\ background = [horizontal |-> FALSE, lines |-> <<"Red">>]
    /\ foreground = Some([color |-> "Blue", shape |-> Circle])
    /\ image = [p \in Pixels(4, 4) |->
                  IF p[1] \in 1 .. 3 /\ p[2] \in 1 .. 3 THEN "Blue" ELSE "Red"]

\* C6 (SpecRandom): every background FlagBackground::random returns has
\* between 1 and 5 stripes.
C6_StripeCountOneToFive ==
    Called => (Len(background.lines) >= 1 /\ Len(background.lines) <= 5)

\* a background of five stripes
C6_Witness == pc = "returned" /\ Len(background.lines) = 5

\* C7 (Spec): create_flag with width = 0 or height = 0 does not panic and
\* returns a buffer without pixels; nothing is painted.
C7_ZeroAreaGivesEmptyBuffer ==
    (Called /\ (width = 0 \/ height = 0))
        => (pc = "returned" /\ DOMAIN image = {} /\ painted = {})

\* width 0, a positive height and a foreground
C7_Witness ==
    /\ pc = "returned"
    /\ width = 0
    /\ height > 0
    /\ foreground # None
    /\ image = EmptyImage

\* C8 as claimed (SpecPreview): handling a Space key or a SizeChanged event
\* invokes random_flag once more and displays a flag of the window's
\* current size.
C8_RegenerateOnSpaceAndResize ==
    [][(HandleEvent /\ Head(queue) \in {"Space", "SizeChanged"})
          => (flags' = flags + 1
              /\ texture' = Some([size |-> win, flag |-> flags + 1]))]_vars

\* C9 as claimed (SpecPixel): for every background with n >= 1 stripes and
\* every pixel of every width x height image, the stripe index lies in
\* 0..n-1, so the lookup into the stripe list never panics.
C9_StripeIndexInBounds ==
    (Called /\ width >= 1 /\ height >= 1)
        => (probe.index >= 0 /\ probe.index < Len(background.lines)
            /\ pc = "returned")

\* C10 (Spec): what Ring(w) paints is a subset of what Circle paints on the
\* same canvas, and of what every Ring(w2) with w2 >= w paints.
C10_RingInsideCircleAndWiderRing ==
    (pc = "returned" /\ foreground # None)
        => (foreground[1].shape.kind = "Ring"
               => /\ painted \subseteq PaintedBy(Circle, width, height)
                  /\ \A k \in RingWidths :
                        k >= foreground[1].shape.w
                           => painted \subseteq PaintedBy(Ring(k), width, height))

\* a ring that paints something, less than the circle and less than a wider
\* ring does
C10_Witness ==
    /\ pc = "returned"
    /\ foreground # None
    /\ foreground[1].shape.kind = "Ring"
    /\ painted # {}
    /\ painted # PaintedBy(Circle, width, height)
    /\ \E k \in RingWidths :
          /\ k > foreground[1].shape.w
          /\ painted # PaintedBy(Ring(k), width, height)

====
